---- MODULE Spec2Model ----
(***************************************************************************)
(* Model of stable_baselines3/her/her_replay_buffer.py: the HER episode    *)
(* store (add, store_episode, reset, truncate_last_trajectory, size), the  *)
(* goal selection strategies (sample_goals) and the transition sampler     *)
(* (_sample_transitions, online and offline).                              *)
(*                                                                         *)
(* A buffer object is a record `her` whose fields carry the names of the   *)
(* attributes of HerReplayBuffer.  Arrays keep Python's 0-based indices:   *)
(* they are functions over 0..n-1.  Of the nine arrays of self._buffer the *)
(* model keeps the five the sampler reads or rewrites (achieved_goal,      *)
(* desired_goal, next_achieved_goal, reward, done); observation, action,   *)
(* next_obs and next_desired_goal are written and copied exactly like      *)
(* achieved_goal and never read by any decision.  Python's assert          *)
(* statements are enabled (the interpreter's default).  An operation that  *)
(* raises ends the run: the exception is not caught anywhere in the file.  *)
(***************************************************************************)
EXTENDS Integers, Sequences, FiniteSets, TLC

VARIABLES her, env, result, hist

vars == <<her, env, result, hist>>

-----------------------------------------------------------------------------
(* Bounds of the model *)

\* largest buffer_size (in transitions) passed to the constructor
MaxBufferSize == 4
\* largest max_episode_length passed to the constructor
MaxEpisodeLength == 2
\* the environment the sampler is checked in has the goals 1..NumGoals; 0 is
\* the content of a never written cell
NumGoals == 2
\* largest n_sampled_goal passed to the constructor
MaxSampledGoal == 1
\* largest batch_size passed to sample
MaxBatchSize == 2
\* most candidate virtual transitions of one closed episode (its length times
\* the number of relabellings of each step) in the buffers of SpecPast
MaxCandidates == 4
\* most environment instances behind one router
MaxEnvs == 3

-----------------------------------------------------------------------------
(* Helpers for 0-based arrays *)

Max(a, b) == IF a >= b THEN a ELSE b

Min(a, b) == IF a <= b THEN a ELSE b

RECURSIVE SumTo(_, _)
\* f[0] + ... + f[n-1]
SumTo(f, n) == IF n = 0 THEN 0 ELSE f[n - 1] + SumTo(f, n - 1)

-----------------------------------------------------------------------------
(* The environment, as far as the buffer consumes it *)

GoalSelectionStrategy == {"FINAL", "FUTURE", "EPISODE", "PAST_DESIRED", "PAST_DESIRED_SUCCESS"}

\* env.compute_reward(achieved_goal, desired_goal, info): a sparse goal reward
compute_reward(achieved_goal, desired_goal, info) == IF achieved_goal = desired_goal THEN 0 ELSE 0 - 1

\* An environment: its goals are 1..n_goals, every episode starts at goal 1
\* and each step reaches the next goal round the ring; desired_goals are the
\* goals it may ask for (one per episode); with time_limit it ends episodes
\* by truncation too.  achieved_goal and desired_goal are its current state.
Env(n_goals, desired_goals, time_limit, desired_goal) ==
    [n_goals |-> n_goals, desired_goals |-> desired_goals, time_limit |-> time_limit,
     achieved_goal |-> 1, desired_goal |-> desired_goal]

\* One environment step, as handed to add: the observation before the step,
\* the one after it, and the reward the environment paid.  The info dict
\* carries the TimeLimit.truncated flag and a payload that identifies the
\* step that produced it: the goal achieved before the step and the desired
\* goal of its episode.
EnvStep(e, truncated) ==
    LET g2 == (e.achieved_goal % e.n_goals) + 1
        info == [TimeLimit_truncated |-> truncated, achieved_goal |-> e.achieved_goal, desired_goal |-> e.desired_goal]
    IN  [obs      |-> [achieved_goal |-> e.achieved_goal, desired_goal |-> e.desired_goal],
         next_obs |-> [achieved_goal |-> g2, desired_goal |-> e.desired_goal],
         reward   |-> compute_reward(g2, e.desired_goal, info),
         infos    |-> info]

\* the environment after the step: reset when the episode is done
EnvAfter(e, done, desired_goal) ==
    IF done THEN [e EXCEPT !.achieved_goal = 1, !.desired_goal = desired_goal]
    ELSE [e EXCEPT !.achieved_goal = (e.achieved_goal % e.n_goals) + 1]

-----------------------------------------------------------------------------
(* The plain ReplayBuffer that stores the desired goals of closed episodes  *)
(* (stable_baselines3.common.buffers, a collaborator outside this file):    *)
(* a circular store of observations with a uniform sample.                  *)

Range(n) == 0..(n - 1)

\* ReplayBuffer(buffer_size = buffer_size, ...)
ReplayBuffer(buffer_size) == [buffer_size |-> buffer_size, observations |-> [i \in Range(buffer_size) |-> 0], pos |-> 0, full |-> FALSE]

\* ReplayBuffer.add(obs, None, None, None, None, None)
ReplayBuffer_add(rb, obs) ==
    LET wrapped == rb.pos + 1 = rb.buffer_size
    IN  [rb EXCEPT !.observations = [rb.observations EXCEPT ![rb.pos] = obs],
                   !.pos = IF wrapped THEN 0 ELSE rb.pos + 1,
                   !.full = IF wrapped THEN TRUE ELSE rb.full]

\* the indices ReplayBuffer.sample draws from, uniformly and independently
ReplayBuffer_sample_range(rb) == Range(IF rb.full THEN rb.buffer_size ELSE rb.pos)

-----------------------------------------------------------------------------
(* HerReplayBuffer: construction *)

ZeroCell == [achieved_goal |-> 0, desired_goal |-> 0, next_achieved_goal |-> 0, reward |-> 0, done |-> 0]

\* HerReplayBuffer.__init__ without the assert on the sampling mode
HerReplayBuffer_any_mode(environment, buffer_size, replay_buffer, max_episode_length, n_sampled_goal, n_sampled_goal_preselection, desired_goal_buffer_size, goal_selection_strategy, online_sampling, handle_timeout_termination) ==
    LET her_buffer_size == IF online_sampling THEN buffer_size ELSE max_episode_length
        max_episode_stored == Max(her_buffer_size \div max_episode_length, 1)
    IN  [init_error |->
             "None",
         goal_selection_strategy |-> goal_selection_strategy,
         n_sampled_goal |-> n_sampled_goal,
         n_sampled_goal_preselection |-> n_sampled_goal_preselection,
         online_sampling |-> online_sampling,
         max_episode_length |-> max_episode_length,
         buffer_size |-> her_buffer_size,
         replay_buffer |-> IF online_sampling THEN "None" ELSE replay_buffer,
         handle_timeout_termination |-> handle_timeout_termination,
         env |-> "env",
         desired_goal_storage |-> ReplayBuffer(IF goal_selection_strategy \in {"PAST_DESIRED", "PAST_DESIRED_SUCCESS"} THEN desired_goal_buffer_size ELSE 0),
         max_episode_stored |-> max_episode_stored,
         current_idx |-> 0,
         episode_steps |-> 0,
         pos |-> 0,
         full |-> FALSE,
         buffer |-> [e \in Range(max_episode_stored) |-> [t \in Range(max_episode_length) |-> ZeroCell]],
         info_buffer |-> [e \in Range(max_episode_stored) |-> <<>>],
         episode_lengths |-> [e \in Range(max_episode_stored) |-> 0]]

\* HerReplayBuffer.__init__ that keeps the replay_buffer it is given in online mode too
HerReplayBuffer_keeping_replay_buffer(environment, buffer_size, replay_buffer, max_episode_length, n_sampled_goal, n_sampled_goal_preselection, desired_goal_buffer_size, goal_selection_strategy, online_sampling, handle_timeout_termination) ==
    LET her_buffer_size == IF online_sampling THEN buffer_size ELSE max_episode_length
        max_episode_stored == Max(her_buffer_size \div max_episode_length, 1)
    IN  [init_error |->
             IF goal_selection_strategy \notin GoalSelectionStrategy THEN "AssertionError"
             ELSE IF goal_selection_strategy \in {"PAST_DESIRED", "PAST_DESIRED_SUCCESS"} /\ online_sampling
             THEN "AssertionError" ELSE "None",
         goal_selection_strategy |-> goal_selection_strategy,
         n_sampled_goal |-> n_sampled_goal,
         n_sampled_goal_preselection |-> n_sampled_goal_preselection,
         online_sampling |-> online_sampling,
         max_episode_length |-> max_episode_length,
         buffer_size |-> her_buffer_size,
         replay_buffer |-> replay_buffer,
         handle_timeout_termination |-> handle_timeout_termination,
         env |-> "env",
         desired_goal_storage |-> ReplayBuffer(IF goal_selection_strategy \in {"PAST_DESIRED", "PAST_DESIRED_SUCCESS"} THEN desired_goal_buffer_size ELSE 0),
         max_episode_stored |-> max_episode_stored,
         current_idx |-> 0,
         episode_steps |-> 0,
         pos |-> 0,
         full |-> FALSE,
         buffer |-> [e \in Range(max_episode_stored) |-> [t \in Range(max_episode_length) |-> ZeroCell]],
         info_buffer |-> [e \in Range(max_episode_stored) |-> <<>>],
         episode_lengths |-> [e \in Range(max_episode_stored) |-> 0]]

\* HerReplayBuffer.__init__; init_error is the exception construction raised
HerReplayBuffer(environment, buffer_size, replay_buffer, max_episode_length, n_sampled_goal, n_sampled_goal_preselection, desired_goal_buffer_size, goal_selection_strategy, online_sampling, handle_timeout_termination) ==
    LET her_buffer_size == IF online_sampling THEN buffer_size ELSE max_episode_length
        max_episode_stored == Max(her_buffer_size \div max_episode_length, 1)
    IN  [init_error |->
             IF goal_selection_strategy \notin GoalSelectionStrategy THEN "AssertionError"
             ELSE IF goal_selection_strategy \in {"PAST_DESIRED", "PAST_DESIRED_SUCCESS"} /\ online_sampling
             THEN "AssertionError" ELSE "None",
         goal_selection_strategy |-> goal_selection_strategy,
         n_sampled_goal |-> n_sampled_goal,
         n_sampled_goal_preselection |-> n_sampled_goal_preselection,
         online_sampling |-> online_sampling,
         max_episode_length |-> max_episode_length,
         buffer_size |-> her_buffer_size,
         replay_buffer |-> IF online_sampling THEN "None" ELSE replay_buffer,
         handle_timeout_termination |-> handle_timeout_termination,
         env |-> "env",
         desired_goal_storage |-> ReplayBuffer(IF goal_selection_strategy \in {"PAST_DESIRED", "PAST_DESIRED_SUCCESS"} THEN desired_goal_buffer_size ELSE 0),
         max_episode_stored |-> max_episode_stored,
         current_idx |-> 0,
         episode_steps |-> 0,
         pos |-> 0,
         full |-> FALSE,
         buffer |-> [e \in Range(max_episode_stored) |-> [t \in Range(max_episode_length) |-> ZeroCell]],
         info_buffer |-> [e \in Range(max_episode_stored) |-> <<>>],
         episode_lengths |-> [e \in Range(max_episode_stored) |-> 0]]

-----------------------------------------------------------------------------
(* HerReplayBuffer: the episode store *)

\* the @property n_episodes_stored
n_episodes_stored(self) == IF self.full THEN self.max_episode_stored ELSE self.pos

\* size() counting only the slots before pos
size_before_pos(self) == SumTo(self.episode_lengths, self.pos)

\* size()
size(self) == SumTo(self.episode_lengths, self.max_episode_stored)

\* store_episode() recording the cursor before the last write was counted
store_episode_short(self) ==
    LET lengths == [self.episode_lengths EXCEPT ![self.pos] = self.current_idx - 1]
        wrapped == self.pos + 1 = self.max_episode_stored
    IN  [self EXCEPT !.episode_lengths = lengths,
                     !.pos = IF wrapped THEN 0 ELSE self.pos + 1,
                     !.full = IF wrapped THEN TRUE ELSE self.full,
                     !.current_idx = 0]

\* store_episode() that wraps pos without raising the full flag
store_episode_never_full(self) ==
    LET lengths == [self.episode_lengths EXCEPT ![self.pos] = self.current_idx]
        wrapped == self.pos + 1 = self.max_episode_stored
    IN  [self EXCEPT !.episode_lengths = lengths,
                     !.pos = IF wrapped THEN 0 ELSE self.pos + 1,
                     !.current_idx = 0]

\* store_episode() that leaves the step cursor where it is
store_episode_keeping_cursor(self) ==
    LET lengths == [self.episode_lengths EXCEPT ![self.pos] = self.current_idx]
        wrapped == self.pos + 1 = self.max_episode_stored
    IN  [self EXCEPT !.episode_lengths = lengths,
                     !.pos = IF wrapped THEN 0 ELSE self.pos + 1,
                     !.full = IF wrapped THEN TRUE ELSE self.full]

\* store_episode()
store_episode(self) ==
    LET lengths == [self.episode_lengths EXCEPT ![self.pos] = self.current_idx]
        wrapped == self.pos + 1 = self.max_episode_stored
    IN  [self EXCEPT !.episode_lengths = lengths,
                     !.pos = IF wrapped THEN 0 ELSE self.pos + 1,
                     !.full = IF wrapped THEN TRUE ELSE self.full,
                     !.current_idx = 0]

\* reset()
reset(self) ==
    [self EXCEPT !.pos = 0,
                 !.current_idx = 0,
                 !.full = FALSE,
                 !.episode_lengths = [e \in Range(self.max_episode_stored) |-> 0]]

\* truncate_last_trajectory() marking the step at the cursor, not the one before it
truncate_last_trajectory_at_cursor(self) ==
    LET current_idx == self.current_idx
        pos == self.pos
        new_pos == (self.pos + 1) % self.max_episode_stored
    IN  IF current_idx > 0
        THEN [self EXCEPT !.episode_lengths = [self.episode_lengths EXCEPT ![pos] = current_idx],
                          !.buffer = [self.buffer EXCEPT ![pos][current_idx].done = 1],
                          !.current_idx = 0,
                          !.pos = new_pos,
                          !.full = self.full \/ new_pos = 0]
        ELSE self

\* truncate_last_trajectory()
truncate_last_trajectory(self) ==
    LET current_idx == self.current_idx
        pos == self.pos
        new_pos == (self.pos + 1) % self.max_episode_stored
    IN  IF current_idx > 0
        THEN [self EXCEPT !.episode_lengths = [self.episode_lengths EXCEPT ![pos] = current_idx],
                          !.buffer = [self.buffer EXCEPT ![pos][current_idx - 1].done = 1],
                          !.current_idx = 0,
                          !.pos = new_pos,
                          !.full = self.full \/ new_pos = 0]
        ELSE self

\* deque(maxlen = maxlen).append(x)
deque_append(q, x, maxlen) == IF Len(q) >= maxlen THEN Append(Tail(q), x) ELSE Append(q, x)

-----------------------------------------------------------------------------
(* HerReplayBuffer: the environment handle and pickling *)

\* __getstate__() that also leaves out the overflow counter
getstate_without_episode_steps(self) == [f \in DOMAIN self \ {"env", "episode_steps"} |-> self[f]]

\* __getstate__(): a copy of __dict__ without env
getstate(self) == [f \in DOMAIN self \ {"env"} |-> self[f]]

\* __setstate__(state) on the object pickle creates without calling __init__:
\* the attributes of state, and env = None.  An attribute state lacks is an
\* attribute the object lacks ("AttributeError" when it is read).
setstate(state) ==
    [f \in DOMAIN state \cup {"env"} |-> IF f = "env" THEN "None" ELSE state[f]]

\* set_env(env) that replaces a handle already set
set_env_overwriting(self, environment) == [self |-> [self EXCEPT !.env = environment], status |-> "ok"]

\* set_env(env): the buffer it leaves and the exception it raised ("ok": none)
set_env(self, environment) ==
    IF self.env # "None" THEN [self |-> self, status |-> "ValueError"]
    ELSE [self |-> [self EXCEPT !.env = environment], status |-> "ok"]

-----------------------------------------------------------------------------
(* HerReplayBuffer: goal selection and the transition sampler.              *)
(* Every numpy draw is a choice: an operator that draws yields the set of   *)
(* its possible outcomes.  The locals of _sample_transitions are a record;  *)
(* its status is "running" until the function returns ("ok") or raises      *)
(* (the name of the exception).                                             *)

NoInfo == [TimeLimit_truncated |-> FALSE, achieved_goal |-> 0, desired_goal |-> 0]

EmptyLocals ==
    [status |-> "running", online_sampling |-> TRUE, episode_length |-> 0, n_sampled_goal_preselection |-> 0,
     episode_indices |-> <<>>, her_indices |-> {}, ep_lengths |-> <<>>, transitions_indices |-> <<>>,
     goal_indices |-> <<>>, transitions |-> <<>>, winner_episodes |-> {}]

Raise(l, exception) == [l EXCEPT !.status = exception]

\* the next statements F run on every outcome that is still running
Bind(S, F(_)) == UNION {IF l.status = "running" THEN F(l) ELSE {l} : l \in S}

\* np.random.randint(low, high) on arrays indexed by I: one independent draw
\* per index; numpy raises ValueError when some low[i] >= high[i]
randint(I, low(_), high(_)) ==
    LET top == IF I = {} THEN 0 ELSE CHOOSE m \in {high(i) : i \in I} : \A i \in I : high(i) <= m
    IN  {d \in [I -> Range(top)] : \A i \in I : low(i) <= d[i] /\ d[i] < high(i)}

\* sample_goals: the step (of the entry's own episode) each HER entry takes.
\* First, sample_goals whose FUTURE draw starts at the sampled step itself
\* its new goal from; {} when numpy raises ValueError
sample_goals_from_sampled_step(self, episode_indices, her_indices, transitions_indices) ==
    LET length(i) == self.episode_lengths[episode_indices[i]]
        last(i)   == IF length(i) - 1 < 0 THEN length(i) - 1 + self.max_episode_length ELSE length(i) - 1
        after(i)  == transitions_indices[i]
        zero(i)   == 0
    IN  CASE self.goal_selection_strategy = "FINAL"   -> {[i \in her_indices |-> last(i)]}
          [] self.goal_selection_strategy = "FUTURE"  -> randint(her_indices, after, length)
          [] self.goal_selection_strategy = "EPISODE" -> randint(her_indices, zero, length)
          [] OTHER -> {}

\* sample_goals whose FINAL goal is read at the sampled step
sample_goals_at_sampled_step(self, episode_indices, her_indices, transitions_indices) ==
    LET length(i) == self.episode_lengths[episode_indices[i]]
        last(i)   == IF length(i) - 1 < 0 THEN length(i) - 1 + self.max_episode_length ELSE length(i) - 1
        after(i)  == transitions_indices[i] + 1
        zero(i)   == 0
    IN  CASE self.goal_selection_strategy = "FINAL"   -> {[i \in her_indices |-> transitions_indices[i]]}
          [] self.goal_selection_strategy = "FUTURE"  -> randint(her_indices, after, length)
          [] self.goal_selection_strategy = "EPISODE" -> randint(her_indices, zero, length)
          [] OTHER -> {}

\* sample_goals(episode_indices, her_indices, transitions_indices)
sample_goals(self, episode_indices, her_indices, transitions_indices) ==
    LET length(i) == self.episode_lengths[episode_indices[i]]
        last(i)   == IF length(i) - 1 < 0 THEN length(i) - 1 + self.max_episode_length ELSE length(i) - 1
        after(i)  == transitions_indices[i] + 1
        zero(i)   == 0
    IN  CASE self.goal_selection_strategy = "FINAL"   -> {[i \in her_indices |-> last(i)]}
          [] self.goal_selection_strategy = "FUTURE"  -> randint(her_indices, after, length)
          [] self.goal_selection_strategy = "EPISODE" -> randint(her_indices, zero, length)
          [] OTHER -> {}

\* _sample_transitions, lines 322-332: the episodes of an online batch.
\* First, the selection that draws the offset from 0 even when the ring is full
select_episodes_online_from_zero(self, batch_size) ==
    LET n == n_episodes_stored(self)
        B == Range(batch_size)
        one(i)  == 1
        zero(i) == 0
        to(i)   == n
        draws == randint(B, zero, to)
        l0 == [EmptyLocals EXCEPT !.her_indices = {i \in B : i < (batch_size * self.n_sampled_goal) \div (self.n_sampled_goal + 1)}]
    IN  IF draws = {} THEN {Raise(EmptyLocals, "ValueError")}
        ELSE {[l0 EXCEPT !.episode_indices = [i \in B |-> IF self.full THEN (d[i] + self.pos) % n ELSE d[i]]] : d \in draws}

\* _sample_transitions, lines 322-332, as written
select_episodes_online(self, batch_size) ==
    LET n == n_episodes_stored(self)
        B == Range(batch_size)
        one(i)  == 1
        zero(i) == 0
        to(i)   == n
        draws == IF self.full THEN randint(B, one, to) ELSE randint(B, zero, to)
        l0 == [EmptyLocals EXCEPT !.her_indices = {i \in B : i < (batch_size * self.n_sampled_goal) \div (self.n_sampled_goal + 1)}]
    IN  IF draws = {} THEN {Raise(EmptyLocals, "ValueError")}
        ELSE {[l0 EXCEPT !.episode_indices = [i \in B |-> IF self.full THEN (d[i] + self.pos) % n ELSE d[i]]] : d \in draws}

\* _sample_transitions, lines 333-351, taking a configured preselection count
\* under every strategy
select_episodes_offline_given_count(self, n_sampled_goal) ==
    LET success == self.goal_selection_strategy = "PAST_DESIRED_SUCCESS"
        given == self.n_sampled_goal_preselection # {}
        preselection == IF given THEN CHOOSE p \in self.n_sampled_goal_preselection : TRUE ELSE n_sampled_goal
        episode_length == self.episode_lengths[0]
        N == Range(episode_length * preselection)
        l0 == [EmptyLocals EXCEPT !.online_sampling = FALSE]
    IN  IF success /\ ~given THEN {Raise(l0, "AssertionError")}
        ELSE {[l0 EXCEPT !.episode_length = episode_length,
                         !.n_sampled_goal_preselection = preselection,
                         !.episode_indices = [i \in N |-> 0],
                         !.her_indices = N]}

\* _sample_transitions, lines 333-351, without the asserts on the preselection count
select_episodes_offline_unchecked(self, n_sampled_goal) ==
    LET success == self.goal_selection_strategy = "PAST_DESIRED_SUCCESS"
        given == self.n_sampled_goal_preselection # {}
        preselection == IF success /\ given THEN CHOOSE p \in self.n_sampled_goal_preselection : TRUE ELSE n_sampled_goal
        episode_length == self.episode_lengths[0]
        N == Range(episode_length * preselection)
        l0 == [EmptyLocals EXCEPT !.online_sampling = FALSE]
    IN  IF FALSE THEN {Raise(l0, "AssertionError")}
        ELSE {[l0 EXCEPT !.episode_length = episode_length,
                         !.n_sampled_goal_preselection = preselection,
                         !.episode_indices = [i \in N |-> 0],
                         !.her_indices = N]}

\* _sample_transitions, lines 333-351: the replicates of the one stored episode
select_episodes_offline(self, n_sampled_goal) ==
    LET success == self.goal_selection_strategy = "PAST_DESIRED_SUCCESS"
        given == self.n_sampled_goal_preselection # {}
        preselection == IF success THEN CHOOSE p \in self.n_sampled_goal_preselection : TRUE ELSE n_sampled_goal
        episode_length == self.episode_lengths[0]
        N == Range(episode_length * preselection)
        l0 == [EmptyLocals EXCEPT !.online_sampling = FALSE]
    IN  IF success # given THEN {Raise(l0, "AssertionError")}
        ELSE {[l0 EXCEPT !.episode_length = episode_length,
                         !.n_sampled_goal_preselection = preselection,
                         !.episode_indices = [i \in N |-> 0],
                         !.her_indices = N]}

\* _sample_transitions, lines 353-377: the step of every entry.
\* First, the selection that draws the step below max_episode_length
select_transitions_any_step(self, l) ==
    LET I == DOMAIN l.episode_indices
        lengths == [i \in I |-> self.episode_lengths[l.episode_indices[i]]]
        future == self.goal_selection_strategy = "FUTURE"
        her_indices == IF future THEN {i \in l.her_indices : lengths[i] > 1} ELSE l.her_indices
        ep_lengths == [i \in I |-> IF future /\ i \in her_indices THEN lengths[i] - 1 ELSE lengths[i]]
        zero(i) == 0
        to(i) == self.max_episode_length
        l1 == [l EXCEPT !.her_indices = her_indices, !.ep_lengths = ep_lengths]
        draws == randint(I, zero, to)
        T == Range(ep_lengths[0] * l.n_sampled_goal_preselection)
    IN  IF l.online_sampling
        THEN IF draws = {} THEN {Raise(l1, "ValueError")}
             ELSE {[l1 EXCEPT !.transitions_indices = d] : d \in draws}
        ELSE IF her_indices = {}
             THEN {[l1 EXCEPT !.status = "ok"]}
             ELSE {[l1 EXCEPT !.transitions_indices = [i \in T |-> i % ep_lengths[0]],
                              !.episode_indices = [i \in T |-> 0],
                              !.her_indices = T]}

\* _sample_transitions, lines 353-377, as written
select_transitions(self, l) ==
    LET I == DOMAIN l.episode_indices
        lengths == [i \in I |-> self.episode_lengths[l.episode_indices[i]]]
        future == self.goal_selection_strategy = "FUTURE"
        her_indices == IF future THEN {i \in l.her_indices : lengths[i] > 1} ELSE l.her_indices
        ep_lengths == [i \in I |-> IF future /\ i \in her_indices THEN lengths[i] - 1 ELSE lengths[i]]
        zero(i) == 0
        to(i) == ep_lengths[i]
        l1 == [l EXCEPT !.her_indices = her_indices, !.ep_lengths = ep_lengths]
        draws == randint(I, zero, to)
        T == Range(ep_lengths[0] * l.n_sampled_goal_preselection)
    IN  IF l.online_sampling
        THEN IF draws = {} THEN {Raise(l1, "ValueError")}
             ELSE {[l1 EXCEPT !.transitions_indices = d] : d \in draws}
        ELSE IF her_indices = {}
             THEN {[l1 EXCEPT !.status = "ok"]}
             ELSE {[l1 EXCEPT !.transitions_indices = [i \in T |-> i % ep_lengths[0]],
                              !.episode_indices = [i \in T |-> 0],
                              !.her_indices = T]}

\* _sample_transitions, lines 379-397: copy the entries and relabel the HER ones
relabel(self, l) ==
    LET I == DOMAIN l.episode_indices
        copy == [i \in I |-> self.buffer[l.episode_indices[i]][l.transitions_indices[i]]]
        past == self.goal_selection_strategy \in {"PAST_DESIRED", "PAST_DESIRED_SUCCESS"}
        picks == IF past THEN [l.her_indices -> ReplayBuffer_sample_range(self.desired_goal_storage)]
                 ELSE sample_goals(self, l.episode_indices, l.her_indices, l.transitions_indices)
        new_goal(i, g) == IF past THEN self.desired_goal_storage.observations[g[i]]
                          ELSE self.buffer[l.episode_indices[i]][g[i]].achieved_goal
    IN  IF picks = {} THEN {Raise(l, "ValueError")}
        ELSE {[l EXCEPT !.goal_indices = g,
                        !.transitions = [i \in I |-> [achieved_goal |-> copy[i].achieved_goal,
                                                      desired_goal |-> IF i \in l.her_indices THEN new_goal(i, g) ELSE copy[i].desired_goal,
                                                      next_achieved_goal |-> copy[i].next_achieved_goal,
                                                      reward |-> copy[i].reward,
                                                      done |-> copy[i].done,
                                                      info |-> NoInfo]]] : g \in picks}

\* _sample_transitions, lines 399-405: the info of every entry
attach_info(self, l) ==
    LET I == DOMAIN l.episode_indices
        deque(i) == self.info_buffer[l.episode_indices[i]]
    IN  IF \E i \in I : l.transitions_indices[i] >= Len(deque(i)) THEN {Raise(l, "IndexError")}
        ELSE {[l EXCEPT !.transitions = [i \in I |-> [l.transitions[i] EXCEPT !.info = deque(i)[l.transitions_indices[i] + 1]]]]}

\* _sample_transitions, lines 417-439: the reward of the HER entries
recompute_rewards(self, l) ==
    LET I == DOMAIN l.episode_indices
        t(i) == l.transitions[i]
    IN  IF l.her_indices = {} THEN {l}
        ELSE IF self.env = "None" THEN {Raise(l, "AttributeError")}
        ELSE {[l EXCEPT !.transitions = [i \in I |-> IF i \in l.her_indices
                                                     THEN [t(i) EXCEPT !.reward = compute_reward(t(i).next_achieved_goal, t(i).desired_goal, t(i).info)]
                                                     ELSE t(i)]]}

\* _sample_transitions, lines 441-445: the count of the relabelled entries.
\* episode_length and n_sampled_goal_preselection are bound on the offline
\* path only: online, the first assert reads an unbound local.
check_preselection_count(self, l) ==
    LET n == Cardinality(DOMAIN l.transitions)
        expected == IF self.goal_selection_strategy = "FUTURE"
                    THEN (l.episode_length - 1) * l.n_sampled_goal_preselection
                    ELSE l.episode_length * l.n_sampled_goal_preselection
    IN  IF l.online_sampling THEN {Raise(l, "UnboundLocalError")}
        ELSE IF n # expected THEN {Raise(l, "AssertionError")}
        ELSE {l}

\* the sets argsort(reward_per_episode)[-n:] can be: n replicates none of
\* which has a smaller summed reward than a replicate left out (the order
\* argsort gives equal values is not specified)
argsort_tail(reward_per_episode, n) ==
    LET R == DOMAIN reward_per_episode
    IN  {W \in SUBSET R : /\ Cardinality(W) = Min(n, Cardinality(R))
                          /\ \A a \in W : \A b \in R \ W : reward_per_episode[a] >= reward_per_episode[b]}

\* unique_indices[:n]: the first replicate of each of the n smallest distinct
\* summed rewards
smallest_uniques(reward_per_episode, n) ==
    LET R == DOMAIN reward_per_episode
        first == {a \in R : \A b \in R : reward_per_episode[b] = reward_per_episode[a] => a <= b}
    IN  {a \in first : Cardinality({b \in first : reward_per_episode[b] < reward_per_episode[a]}) < n}

\* unique_indices[-n:] of np.unique(reward_per_episode, return_index=True):
\* the first replicate of each of the n largest distinct summed rewards
largest_uniques(reward_per_episode, n) ==
    LET R == DOMAIN reward_per_episode
        first == {a \in R : \A b \in R : reward_per_episode[b] = reward_per_episode[a] => a <= b}
    IN  {a \in first : Cardinality({b \in first : reward_per_episode[b] > reward_per_episode[a]}) < n}

\* _sample_transitions, lines 447-476: keep the n_sampled_goal best replicates
select_success(self, l, n_sampled_goal) ==
    LET P == l.n_sampled_goal_preselection
        L == l.episode_length
        n == CHOOSE k \in n_sampled_goal : TRUE
        I == DOMAIN l.transitions
        reward_per_episode == [r \in Range(P) |-> SumTo([t \in Range(L) |-> l.transitions[r * L + t].reward], L)]
        uniques == {reward_per_episode[r] : r \in Range(P)}
        winners == IF Cardinality(uniques) >= n THEN {largest_uniques(reward_per_episode, n)}
                   ELSE argsort_tail(reward_per_episode, n)
        kept(W) == {i \in I : (i \div L) \in W}
        nth(W, k) == CHOOSE i \in kept(W) : Cardinality({j \in kept(W) : j < i}) = k
    IN  IF self.goal_selection_strategy = "PAST_DESIRED_SUCCESS"
        THEN IF ~(n < P) THEN {Raise(l, "AssertionError")}
             ELSE {[l EXCEPT !.winner_episodes = W,
                             !.transitions = [k \in Range(Cardinality(kept(W))) |-> l.transitions[nth(W, k)]]] : W \in winners}
        ELSE IF P # n THEN {Raise(l, "AssertionError")}
        ELSE {l}

\* _sample_transitions, lines 478-509: the final count, then the return
check_count_and_return(self, l, n_sampled_goal) ==
    LET n == CHOOSE k \in n_sampled_goal : TRUE
        expected == IF self.goal_selection_strategy = "FUTURE" THEN (l.episode_length - 1) * n ELSE l.episode_length * n
    IN  IF Cardinality(DOMAIN l.transitions) # expected THEN {Raise(l, "AssertionError")}
        ELSE {[l EXCEPT !.status = "ok"]}

\* _sample_transitions(batch_size, maybe_vec_env, online_sampling, n_sampled_goal);
\* an Optional[int] is the empty set (None) or a singleton
sample_transitions(self, batch_size, online_sampling, n_sampled_goal) ==
    LET s0 == IF online_sampling THEN select_episodes_online(self, batch_size)
              ELSE select_episodes_offline(self, CHOOSE k \in n_sampled_goal : TRUE)
        f1(l) == select_transitions(self, l)
        f2(l) == relabel(self, l)
        f3(l) == attach_info(self, l)
        f4(l) == recompute_rewards(self, l)
        f5(l) == check_preselection_count(self, l)
        f6(l) == select_success(self, l, n_sampled_goal)
        f7(l) == check_count_and_return(self, l, n_sampled_goal)
    IN  Bind(Bind(Bind(Bind(Bind(Bind(Bind(s0, f1), f2), f3), f4), f5), f6), f7)

\* sample(batch_size, env)
sample(self, batch_size) ==
    IF self.replay_buffer # "None" THEN {[EmptyLocals EXCEPT !.status = "delegated"]}
    ELSE sample_transitions(self, batch_size, TRUE, {})

\* _sample_offline(n_sampled_goal)
sample_offline(self, n_sampled_goal) == sample_transitions(self, 0, FALSE, n_sampled_goal)

\* _sample_her_transitions() whose loop stops one transition short
sample_her_transitions_but_last(self) ==
    LET virtual(t) == [obs |-> [achieved_goal |-> t.achieved_goal, desired_goal |-> t.desired_goal],
                       next_obs |-> [achieved_goal |-> t.next_achieved_goal, desired_goal |-> t.desired_goal],
                       reward |-> t.reward, done |-> FALSE, infos |-> NoInfo]
        n(l) == Cardinality(DOMAIN l.transitions)
    IN  {[status |-> IF l.status = "ok" /\ n(l) > 0 /\ self.replay_buffer = "None" THEN "AttributeError" ELSE l.status,
          locals |-> l,
          calls  |-> IF l.status = "ok" /\ self.replay_buffer # "None"
                     THEN [k \in 1..(n(l) - 1) |-> virtual(l.transitions[k - 1])] ELSE <<>>]
         : l \in sample_offline(self, {self.n_sampled_goal})}

\* _sample_her_transitions(): the outcomes of the relabelling, each with the
\* calls of replay_buffer.add it makes, in order
sample_her_transitions(self) ==
    LET virtual(t) == [obs |-> [achieved_goal |-> t.achieved_goal, desired_goal |-> t.desired_goal],
                       next_obs |-> [achieved_goal |-> t.next_achieved_goal, desired_goal |-> t.desired_goal],
                       reward |-> t.reward, done |-> FALSE, infos |-> NoInfo]
        n(l) == Cardinality(DOMAIN l.transitions)
    IN  {[status |-> IF l.status = "ok" /\ n(l) > 0 /\ self.replay_buffer = "None" THEN "AttributeError" ELSE l.status,
          locals |-> l,
          calls  |-> IF l.status = "ok" /\ self.replay_buffer # "None"
                     THEN [k \in 1..n(l) |-> virtual(l.transitions[k - 1])] ELSE <<>>]
         : l \in sample_offline(self, {self.n_sampled_goal})}

-----------------------------------------------------------------------------
(* HerReplayBuffer.add *)

\* add that stores done as it is given, whatever the timeout handling
add_storing_done_verbatim(self, obs, next_obs, reward, done, infos) ==
    LET pos == self.pos
        idx == self.current_idx
        cleared == IF idx = 0 /\ self.full THEN [self.info_buffer EXCEPT ![pos] = <<>>] ELSE self.info_buffer
        done_ == IF done THEN 1 ELSE 0
        cell == [achieved_goal |-> obs.achieved_goal, desired_goal |-> obs.desired_goal,
                 next_achieved_goal |-> next_obs.achieved_goal, reward |-> reward, done |-> done_]
        real == IF self.replay_buffer # "None"
                THEN <<[obs |-> obs, next_obs |-> next_obs, reward |-> reward, done |-> done, infos |-> infos]>>
                ELSE <<>>
        written == [self EXCEPT !.buffer = [self.buffer EXCEPT ![pos][idx] = cell],
                                !.info_buffer = [cleared EXCEPT ![pos] = deque_append(cleared[pos], infos, self.max_episode_length)],
                                !.current_idx = idx + 1,
                                !.episode_steps = self.episode_steps + 1]
        closes == done \/ written.episode_steps >= self.max_episode_length
        stored == store_episode(written)
        past == self.goal_selection_strategy \in {"PAST_DESIRED", "PAST_DESIRED_SUCCESS"}
        remembered == IF past
                      THEN [stored EXCEPT !.desired_goal_storage = ReplayBuffer_add(stored.desired_goal_storage, next_obs.desired_goal)]
                      ELSE stored
        out(b, status, st, calls, l) == [self |-> b, status |-> status, stored |-> st, calls |-> calls, locals |-> l]
    IN  IF idx >= self.max_episode_length
        THEN {out([self EXCEPT !.info_buffer = cleared], "IndexError", FALSE, <<>>, EmptyLocals)}
        ELSE IF ~closes
        THEN {out(written, "ok", FALSE, real, EmptyLocals)}
        ELSE IF self.online_sampling
        THEN {out([stored EXCEPT !.episode_steps = 0], "ok", TRUE, real, EmptyLocals)}
        ELSE {IF h.status = "ok"
              THEN out([reset(remembered) EXCEPT !.episode_steps = 0], "ok", TRUE, real \o h.calls, h.locals)
              ELSE out(remembered, h.status, TRUE, real \o h.calls, h.locals)
              : h \in sample_her_transitions(remembered)}

\* add that appends the desired goal to the history after the relabelling
add_remembering_after_relabelling(self, obs, next_obs, reward, done, infos) ==
    LET pos == self.pos
        idx == self.current_idx
        cleared == IF idx = 0 /\ self.full THEN [self.info_buffer EXCEPT ![pos] = <<>>] ELSE self.info_buffer
        done_ == IF self.handle_timeout_termination
                 THEN (IF done THEN 1 ELSE 0) * (1 - (IF infos.TimeLimit_truncated THEN 1 ELSE 0))
                 ELSE (IF done THEN 1 ELSE 0)
        cell == [achieved_goal |-> obs.achieved_goal, desired_goal |-> obs.desired_goal,
                 next_achieved_goal |-> next_obs.achieved_goal, reward |-> reward, done |-> done_]
        real == IF self.replay_buffer # "None"
                THEN <<[obs |-> obs, next_obs |-> next_obs, reward |-> reward, done |-> done, infos |-> infos]>>
                ELSE <<>>
        written == [self EXCEPT !.buffer = [self.buffer EXCEPT ![pos][idx] = cell],
                                !.info_buffer = [cleared EXCEPT ![pos] = deque_append(cleared[pos], infos, self.max_episode_length)],
                                !.current_idx = idx + 1,
                                !.episode_steps = self.episode_steps + 1]
        closes == done \/ written.episode_steps >= self.max_episode_length
        stored == store_episode(written)
        past == self.goal_selection_strategy \in {"PAST_DESIRED", "PAST_DESIRED_SUCCESS"}
        remembered == IF past
                      THEN [stored EXCEPT !.desired_goal_storage = ReplayBuffer_add(stored.desired_goal_storage, next_obs.desired_goal)]
                      ELSE stored
        out(b, status, st, calls, l) == [self |-> b, status |-> status, stored |-> st, calls |-> calls, locals |-> l]
    IN  IF idx >= self.max_episode_length
        THEN {out([self EXCEPT !.info_buffer = cleared], "IndexError", FALSE, <<>>, EmptyLocals)}
        ELSE IF ~closes
        THEN {out(written, "ok", FALSE, real, EmptyLocals)}
        ELSE IF self.online_sampling
        THEN {out([stored EXCEPT !.episode_steps = 0], "ok", TRUE, real, EmptyLocals)}
        ELSE {IF h.status = "ok"
              THEN out([reset(remembered) EXCEPT !.episode_steps = 0], "ok", TRUE, real \o h.calls, h.locals)
              ELSE out(stored, h.status, TRUE, real \o h.calls, h.locals)
              : h \in sample_her_transitions(stored)}

\* add that forwards the real transition of a closing add after the virtual ones
add_forwarding_after_relabelling(self, obs, next_obs, reward, done, infos) ==
    LET pos == self.pos
        idx == self.current_idx
        cleared == IF idx = 0 /\ self.full THEN [self.info_buffer EXCEPT ![pos] = <<>>] ELSE self.info_buffer
        done_ == IF self.handle_timeout_termination
                 THEN (IF done THEN 1 ELSE 0) * (1 - (IF infos.TimeLimit_truncated THEN 1 ELSE 0))
                 ELSE (IF done THEN 1 ELSE 0)
        cell == [achieved_goal |-> obs.achieved_goal, desired_goal |-> obs.desired_goal,
                 next_achieved_goal |-> next_obs.achieved_goal, reward |-> reward, done |-> done_]
        real == IF self.replay_buffer # "None"
                THEN <<[obs |-> obs, next_obs |-> next_obs, reward |-> reward, done |-> done, infos |-> infos]>>
                ELSE <<>>
        written == [self EXCEPT !.buffer = [self.buffer EXCEPT ![pos][idx] = cell],
                                !.info_buffer = [cleared EXCEPT ![pos] = deque_append(cleared[pos], infos, self.max_episode_length)],
                                !.current_idx = idx + 1,
                                !.episode_steps = self.episode_steps + 1]
        closes == done \/ written.episode_steps >= self.max_episode_length
        stored == store_episode(written)
        past == self.goal_selection_strategy \in {"PAST_DESIRED", "PAST_DESIRED_SUCCESS"}
        remembered == IF past
                      THEN [stored EXCEPT !.desired_goal_storage = ReplayBuffer_add(stored.desired_goal_storage, next_obs.desired_goal)]
                      ELSE stored
        out(b, status, st, calls, l) == [self |-> b, status |-> status, stored |-> st, calls |-> calls, locals |-> l]
    IN  IF idx >= self.max_episode_length
        THEN {out([self EXCEPT !.info_buffer = cleared], "IndexError", FALSE, <<>>, EmptyLocals)}
        ELSE IF ~closes
        THEN {out(written, "ok", FALSE, real, EmptyLocals)}
        ELSE IF self.online_sampling
        THEN {out([stored EXCEPT !.episode_steps = 0], "ok", TRUE, real, EmptyLocals)}
        ELSE {IF h.status = "ok"
              THEN out([reset(remembered) EXCEPT !.episode_steps = 0], "ok", TRUE, h.calls \o real, h.locals)
              ELSE out(remembered, h.status, TRUE, h.calls \o real, h.locals)
              : h \in sample_her_transitions(remembered)}

\* add(obs, next_obs, action, reward, done, infos): its outcomes, each with the
\* buffer it leaves, the exception it raised ("ok": none), whether
\* store_episode ran, the calls of replay_buffer.add it made and the locals
\* of the offline relabelling
add(self, obs, next_obs, reward, done, infos) ==
    LET pos == self.pos
        idx == self.current_idx
        cleared == IF idx = 0 /\ self.full THEN [self.info_buffer EXCEPT ![pos] = <<>>] ELSE self.info_buffer
        done_ == IF self.handle_timeout_termination
                 THEN (IF done THEN 1 ELSE 0) * (1 - (IF infos.TimeLimit_truncated THEN 1 ELSE 0))
                 ELSE (IF done THEN 1 ELSE 0)
        cell == [achieved_goal |-> obs.achieved_goal, desired_goal |-> obs.desired_goal,
                 next_achieved_goal |-> next_obs.achieved_goal, reward |-> reward, done |-> done_]
        real == IF self.replay_buffer # "None"
                THEN <<[obs |-> obs, next_obs |-> next_obs, reward |-> reward, done |-> done, infos |-> infos]>>
                ELSE <<>>
        written == [self EXCEPT !.buffer = [self.buffer EXCEPT ![pos][idx] = cell],
                                !.info_buffer = [cleared EXCEPT ![pos] = deque_append(cleared[pos], infos, self.max_episode_length)],
                                !.current_idx = idx + 1,
                                !.episode_steps = self.episode_steps + 1]
        closes == done \/ written.episode_steps >= self.max_episode_length
        stored == store_episode(written)
        past == self.goal_selection_strategy \in {"PAST_DESIRED", "PAST_DESIRED_SUCCESS"}
        remembered == IF past
                      THEN [stored EXCEPT !.desired_goal_storage = ReplayBuffer_add(stored.desired_goal_storage, next_obs.desired_goal)]
                      ELSE stored
        out(b, status, st, calls, l) == [self |-> b, status |-> status, stored |-> st, calls |-> calls, locals |-> l]
    IN  IF idx >= self.max_episode_length
        THEN {out([self EXCEPT !.info_buffer = cleared], "IndexError", FALSE, <<>>, EmptyLocals)}
        ELSE IF ~closes
        THEN {out(written, "ok", FALSE, real, EmptyLocals)}
        ELSE IF self.online_sampling
        THEN {out([stored EXCEPT !.episode_steps = 0], "ok", TRUE, real, EmptyLocals)}
        ELSE {IF h.status = "ok"
              THEN out([reset(remembered) EXCEPT !.episode_steps = 0], "ok", TRUE, real \o h.calls, h.locals)
              ELSE out(remembered, h.status, TRUE, real \o h.calls, h.locals)
              : h \in sample_her_transitions(remembered)}

-----------------------------------------------------------------------------
(* VecHerReplayBuffer: the router over one HerReplayBuffer per environment  *)
(* instance.  A router is a record with its n_envs and its buffers, an      *)
(* array of buffer records; a batched argument is an array over the         *)
(* instances 0..n_envs-1.                                                   *)

\* a Python bool where another type is expected: as an int it is 0 or 1, and
\* as a goal selection strategy it is a value outside GoalSelectionStrategy,
\* written here as its repr
int(b) == IF b THEN 1 ELSE 0

repr(b) == IF b THEN "True" ELSE "False"

\* VecHerReplayBuffer.__init__.  It hands HerReplayBuffer nine positional
\* arguments; the seventh, eighth and ninth parameters of HerReplayBuffer are
\* n_sampled_goal_preselection, desired_goal_buffer_size and
\* goal_selection_strategy, so these receive the router's
\* goal_selection_strategy, online_sampling and handle_timeout_termination,
\* and online_sampling and handle_timeout_termination keep their default
\* True.  init_error is the exception of the first buffer that failed.
VecHerReplayBuffer(num_envs, buffer_size, replay_buffer, max_episode_length, n_sampled_goal, goal_selection_strategy, online_sampling, handle_timeout_termination) ==
    LET buffer_sizes == [i \in Range(num_envs) |-> (buffer_size + i) \div num_envs]
        buffers == [i \in Range(num_envs) |->
                      HerReplayBuffer("env", buffer_sizes[i], replay_buffer, max_episode_length, n_sampled_goal,
                                      {goal_selection_strategy}, int(online_sampling), repr(handle_timeout_termination),
                                      TRUE, TRUE)]
        failed == {i \in Range(num_envs) : buffers[i].init_error # "None"}
    IN  [init_error |-> IF failed = {} THEN "None"
                        ELSE buffers[CHOOSE i \in failed : \A j \in failed : i <= j].init_error,
         n_envs |-> num_envs,
         buffers |-> buffers]

\* the loop of VecHerReplayBuffer.add from instance i on: buffers[i].add gets
\* the i-th component of every argument; an exception ends the loop
RECURSIVE vec_add_from(_, _, _, _, _, _, _)
vec_add_from(self, i, obs, next_obs, reward, done, infos) ==
    IF i = self.n_envs THEN {[self |-> self, status |-> "ok", received |-> [j \in Range(self.n_envs) |-> 1]]}
    ELSE UNION {IF o.status # "ok"
                THEN {[self |-> [self EXCEPT !.buffers[i] = o.self], status |-> o.status,
                       received |-> [j \in Range(self.n_envs) |-> IF j <= i THEN 1 ELSE 0]]}
                ELSE vec_add_from([self EXCEPT !.buffers[i] = o.self], i + 1, obs, next_obs, reward, done, infos)
                : o \in add(self.buffers[i], obs[i], next_obs[i], reward[i], done[i], infos[i])}

\* VecHerReplayBuffer.add(obs, next_obs, action, reward, done, infos): its
\* outcomes, each with the router it leaves, the exception raised ("ok":
\* none) and the number of adds each instance received
VecHerReplayBuffer_add(self, obs, next_obs, reward, done, infos) ==
    vec_add_from(self, 0, obs, next_obs, reward, done, infos)

\* the shares VecHerReplayBuffer.sample gives the instances
batch_sizes(batch_size, n_envs) == [i \in Range(n_envs) |-> (batch_size + i) \div n_envs]

\* the loop of VecHerReplayBuffer.sample from instance i on: the samples
\* appended, in order; an instance with a share of zero is skipped
RECURSIVE vec_sample_from(_, _, _)
vec_sample_from(self, shares, i) ==
    IF i = self.n_envs THEN {[status |-> "ok", samples |-> <<>>]}
    ELSE IF shares[i] <= 0 THEN vec_sample_from(self, shares, i + 1)
    ELSE UNION {IF l.status \notin {"ok", "delegated"}
                THEN {[status |-> l.status, samples |-> <<>>]}
                ELSE {[status |-> r.status, samples |-> <<[batch_size |-> shares[i], locals |-> l]>> \o r.samples]
                      : r \in vec_sample_from(self, shares, i + 1)}
                : l \in sample(self.buffers[i], shares[i])}

\* VecHerReplayBuffer.sample(batch_size, env): the samples it concatenates,
\* each with the share it was asked for; samples[0] of an empty list raises
VecHerReplayBuffer_sample(self, batch_size) ==
    {IF o.status = "ok" /\ o.samples = <<>> THEN [o EXCEPT !.status = "IndexError"] ELSE o
     : o \in vec_sample_from(self, batch_sizes(batch_size, self.n_envs), 0)}

-----------------------------------------------------------------------------
(* The state machine: one buffer, driven by its caller *)

NoResult == [op |-> "init", status |-> "ok", done |-> FALSE, batch_size |-> 0, stored |-> FALSE, calls |-> <<>>, locals |-> EmptyLocals]

\* history: the adds the in-progress episode has received, the episodes
\* closed since construction or the last reset (counted up to one past a full
\* turn of the ring), and the length of the last episode closed into each slot
NoHist(b) == [ep_added |-> 0, closed |-> 0, held |-> [s \in Range(b.max_episode_stored) |-> 0]]

Closed(b, h, slot) ==
    [ep_added |-> 0,
     closed |-> Min(h.closed + 1, b.max_episode_stored + 2),
     held |-> [h.held EXCEPT ![slot] = h.ep_added]]

\* the state after construction
Constructed(e, b) ==
    /\ env = e
    /\ her = b
    /\ result = NoResult
    /\ hist = NoHist(b)

\* no exception so far
Alive == her.init_error = "None" /\ result.status \in {"ok", "delegated"}

Add ==
    /\ Alive
    /\ \E done \in BOOLEAN, truncated \in BOOLEAN, d \in env.desired_goals :
         /\ truncated => done /\ env.time_limit
         /\ LET step == EnvStep(env, truncated)
            IN  \E o \in add(her, step.obs, step.next_obs, step.reward, done, step.infos) :
                  /\ her' = o.self
                  /\ result' = [op |-> "add", status |-> o.status, done |-> done, batch_size |-> 0,
                                stored |-> o.stored, calls |-> o.calls, locals |-> o.locals]
                  /\ hist' = LET h == [hist EXCEPT !.ep_added = hist.ep_added + 1]
                             IN  IF ~o.stored THEN h
                                 ELSE IF her.online_sampling \/ o.status # "ok" THEN Closed(her, h, her.pos)
                                 ELSE NoHist(her)
         /\ env' = EnvAfter(env, done, d)

Sample ==
    /\ Alive
    /\ \E batch_size \in 1..MaxBatchSize :
         \E l \in sample(her, batch_size) :
           /\ result' = [op |-> "sample", status |-> l.status, done |-> FALSE, batch_size |-> batch_size,
                         stored |-> FALSE, calls |-> <<>>, locals |-> l]
           /\ UNCHANGED <<her, env, hist>>

Reset ==
    /\ Alive
    /\ her' = reset(her)
    /\ result' = [NoResult EXCEPT !.op = "reset"]
    /\ hist' = NoHist(her)
    /\ UNCHANGED env

Truncate ==
    /\ Alive
    /\ her' = truncate_last_trajectory(her)
    /\ result' = [NoResult EXCEPT !.op = "truncate_last_trajectory"]
    /\ hist' = IF her.current_idx > 0 THEN Closed(her, hist, her.pos) ELSE hist
    /\ UNCHANGED env

\* set_env(env), called by the owner of the buffer
SetEnv ==
    /\ Alive
    /\ LET o == set_env(her, "env")
       IN  /\ her' = o.self
           /\ result' = [NoResult EXCEPT !.op = "set_env", !.status = o.status]
    /\ UNCHANGED <<env, hist>>

\* the buffer is pickled and unpickled: pickle.loads(pickle.dumps(buffer))
Restore ==
    /\ Alive
    /\ her' = setstate(getstate(her))
    /\ result' = [NoResult EXCEPT !.op = "restore"]
    /\ UNCHANGED <<env, hist>>

\* Spec: the episode store.  Buffers of every shape and mode, with the
\* strategies that read the episode itself, in an environment with one goal
\* and a time limit.
Init ==
    \E buffer_size \in 1..MaxBufferSize, max_episode_length \in 1..MaxEpisodeLength, n_sampled_goal \in 1..MaxSampledGoal :
      \E strategy \in {"FINAL", "FUTURE", "EPISODE"}, online_sampling \in BOOLEAN, handle_timeout_termination \in BOOLEAN :
        LET e == Env(1, {1}, TRUE, 1)
        IN  Constructed(e, HerReplayBuffer(e, buffer_size, "DictReplayBuffer", max_episode_length, n_sampled_goal, {}, 0,
                                           strategy, online_sampling, handle_timeout_termination))

Next == Add \/ Reset \/ Truncate

Spec == Init /\ [][Next]_vars

\* SpecSample: the sampler.  The same buffers with timeout handling left at
\* its default, in an environment with NumGoals goals and no time limit.
InitSample ==
    \E buffer_size \in 1..MaxBufferSize, max_episode_length \in 1..MaxEpisodeLength, n_sampled_goal \in 1..MaxSampledGoal :
      \E strategy \in {"FINAL", "FUTURE", "EPISODE"}, online_sampling \in BOOLEAN :
        LET e == Env(NumGoals, {1}, FALSE, 1)
        IN  Constructed(e, HerReplayBuffer(e, buffer_size, "DictReplayBuffer", max_episode_length, n_sampled_goal, {}, 0,
                                           strategy, online_sampling, TRUE))

NextSample == Add \/ Sample \/ Truncate

SpecSample == InitSample /\ [][NextSample]_vars

\* SpecPersist: the buffers of Spec, saved and loaded by their owner.
NextPersist == Add \/ Truncate \/ SetEnv \/ Restore

SpecPersist == Init /\ [][NextPersist]_vars

\* SpecPast: every combination of strategy, sampling mode and preselection
\* count, valid or not, with a history of two desired goals, in an
\* environment that draws the desired goal of each episode from 1..NumGoals.
InitPast ==
    \E max_episode_length \in 1..MaxEpisodeLength, n_sampled_goal \in 1..(MaxSampledGoal + 1) :
      \E preselection \in {{}} \cup {{p} : p \in 1..(MaxCandidates \div max_episode_length)} :
        \E strategy \in GoalSelectionStrategy, online_sampling \in BOOLEAN :
          LET e == Env(NumGoals, 1..NumGoals, FALSE, 1)
          IN  /\ n_sampled_goal * max_episode_length <= MaxCandidates
              /\ Constructed(e, HerReplayBuffer(e, max_episode_length, "DictReplayBuffer", max_episode_length, n_sampled_goal,
                                                preselection, 2, strategy, online_sampling, TRUE))

\* add, until the history of desired goals has been filled once
AddPast == ~her.desired_goal_storage.full /\ Add

NextPast == AddPast

SpecPast == InitPast /\ [][NextPast]_vars

\* SpecVec: a program that builds a router.  Before the call the program
\* holds no router and hist holds the arguments it is about to pass; the
\* call is the only step, because VecHerReplayBuffer.__init__ raises for
\* every argument list and an exception ends the run, so no add or sample
\* of a router is ever reached.
NoRouter == [init_error |-> "None", n_envs |-> 0, buffers |-> <<>>]

InitVec ==
    \E num_envs \in 1..MaxEnvs, buffer_size \in 1..MaxBufferSize, max_episode_length \in 1..MaxEpisodeLength :
      \E n_sampled_goal \in 1..MaxSampledGoal, strategy \in {"FINAL", "FUTURE", "EPISODE"} :
        \E online_sampling \in BOOLEAN, handle_timeout_termination \in BOOLEAN :
          /\ env = Env(NumGoals, {1}, FALSE, 1)
          /\ her = NoRouter
          /\ result = NoResult
          /\ hist = [num_envs |-> num_envs, buffer_size |-> buffer_size, max_episode_length |-> max_episode_length,
                     n_sampled_goal |-> n_sampled_goal, goal_selection_strategy |-> strategy,
                     online_sampling |-> online_sampling, handle_timeout_termination |-> handle_timeout_termination]

\* router = VecHerReplayBuffer(env, buffer_size, ...)
VecConstruct ==
    /\ result.op = "init"
    /\ her' = VecHerReplayBuffer(hist.num_envs, hist.buffer_size, "DictReplayBuffer", hist.max_episode_length,
                                 hist.n_sampled_goal, hist.goal_selection_strategy, hist.online_sampling,
                                 hist.handle_timeout_termination)
    /\ result' = [NoResult EXCEPT !.op = "VecHerReplayBuffer",
                                  !.status = IF her'.init_error = "None" THEN "ok" ELSE her'.init_error]
    /\ UNCHANGED <<env, hist>>

NextVec == VecConstruct

SpecVec == InitVec /\ [][NextVec]_vars

-----------------------------------------------------------------------------
(* Properties of the episode store, checked under Spec *)

Stored == her.max_episode_stored

IsAdd == result.op = "add"

\* C1: on an online buffer that holds a closed episode, sample(batch_size)
\* returns a batch of exactly batch_size transitions, without an exception.
C1_OnlineSampleReturnsBatch ==
    (result.op = "sample" /\ her.online_sampling /\ size(her) > 0)
        => (result.status = "ok" /\ Cardinality(DOMAIN result.locals.transitions) = result.batch_size)

\* C2: an add closes the in-progress episode exactly when its done flag is
\* true or the cursor current_idx reaches max_episode_length with that write.
C2_ClosesIffDoneOrCursorFull ==
    [][(result'.op = "add" /\ result'.status = "ok")
           => (result'.stored <=> (result'.done \/ her.current_idx + 1 = her.max_episode_length))]_vars

\* C3: on an online buffer an add with done = true closes exactly one
\* episode: the slot that was at pos gets the number of transitions added to
\* the episode as its length and no other length changes, pos advances by one
\* modulo max_episode_stored, full is raised exactly when pos wraps to 0 and
\* stays as it was otherwise, and current_idx is 0 afterwards.
C3_DoneAddClosesOneEpisode ==
    [][(result'.op = "add" /\ result'.done /\ her.online_sampling)
           => /\ result'.stored
              /\ her'.episode_lengths[her.pos] = hist.ep_added + 1
              /\ \A s \in Range(Stored) \ {her.pos} : her'.episode_lengths[s] = her.episode_lengths[s]
              /\ her'.pos = (her.pos + 1) % Stored
              /\ her'.full = (her.full \/ her'.pos = 0)
              /\ her'.current_idx = 0]_vars

\* C3 witness: a done add has just closed a two-step episode into the last
\* slot of a ring of several slots, wrapping pos to 0 and filling the store.
C3_Witness ==
    /\ IsAdd /\ result.done /\ her.online_sampling
    /\ Stored > 1 /\ her.pos = 0 /\ her.full
    /\ her.episode_lengths[Stored - 1] = 2

\* C4: on an online buffer size() is the sum of the lengths of the episodes
\* held in the slots (the last episode closed into each); the transitions of
\* the in-progress episode are not counted.
C4_SizeIsSumOfHeldEpisodes ==
    her.online_sampling => size(her) = SumTo(hist.held, Stored)

\* C4 witness: the ring has wrapped and an in-progress episode is being
\* written over a held episode, which size() still counts.
C4_Witness ==
    /\ her.online_sampling /\ her.full /\ her.current_idx > 0 /\ her.pos > 0
    /\ her.episode_lengths[her.pos] = 2 /\ hist.ep_added = 1
    /\ size(her) > 2

\* C5 as stated: after max_episode_stored closed episodes full is true and
\* pos is 0, and after max_episode_stored + 1 closed episodes pos is 1 and
\* full is still true.
C5_PosIsOneAfterWrap ==
    her.online_sampling
        => /\ hist.closed = Stored => (her.full /\ her.pos = 0)
           /\ hist.closed = Stored + 1 => (her.full /\ her.pos = 1)

\* C5 amended: after max_episode_stored closed episodes full is true and pos
\* is 0, the episode in progress then is written into slot 0 (whose info
\* deque holds exactly its steps), and after max_episode_stored + 1 closed
\* episodes pos is 1 modulo max_episode_stored, slot 0 holds the newest
\* episode and full is still true.
C5_RingWrapsToSlotZero ==
    her.online_sampling
        => /\ hist.closed = Stored
                => /\ her.full /\ her.pos = 0
                   /\ her.current_idx > 0 => Len(her.info_buffer[0]) = her.current_idx
                   /\ hist.ep_added = her.current_idx
           /\ hist.closed = Stored + 1
                => /\ her.full /\ her.pos = 1 % Stored
                   /\ her.current_idx = 0 => her.episode_lengths[0] = Len(her.info_buffer[0])

\* C5 witness: a ring of several slots has closed one episode more than it
\* has slots.
C5_Witness ==
    /\ her.online_sampling /\ Stored > 1 /\ hist.closed = Stored + 1
    /\ her.pos = 1 /\ her.episode_lengths[0] = 1 /\ her.episode_lengths[1] = 2

-----------------------------------------------------------------------------
(* Properties of the sampler, checked under SpecSample.  result.locals are  *)
(* the locals of the last run of _sample_transitions, as they were when it  *)
(* returned or raised.                                                      *)

Locals == result.locals

Entries == DOMAIN Locals.transitions

\* the slot and the step entry i was read from
SlotOf(i) == Locals.episode_indices[i]

StepOf(i) == Locals.transitions_indices[i]

\* the length of entry i's episode when it was sampled (the offline path runs
\* before reset() clears the lengths)
LengthOf(i) == IF Locals.online_sampling THEN her.episode_lengths[SlotOf(i)] ELSE Locals.episode_length

\* the stored transition entry i is a copy of
CellOf(i) == her.buffer[SlotOf(i)][StepOf(i)]

\* C6: on an online buffer the episode selection of sample never picks the
\* slot at pos when full is true and picks only slots below pos when full is
\* false; every slot it picks holds a closed episode of length at least 1.
C6_SelectionAvoidsOpenSlot ==
    (result.op = "sample" /\ her.online_sampling)
        => \A i \in DOMAIN Locals.episode_indices :
             LET e == Locals.episode_indices[i]
             IN  /\ e \in Range(Stored)
                 /\ her.full => e # her.pos
                 /\ ~her.full => e < her.pos
                 /\ her.episode_lengths[e] >= 1
                 /\ hist.held[e] = her.episode_lengths[e]

\* C6 witness: a batch of two entries drawn from a full ring whose pos is in
\* the middle, one from the slot below pos and one from the slot above it.
C6_Witness ==
    /\ result.op = "sample" /\ her.online_sampling /\ her.full /\ her.pos > 0
    /\ DOMAIN Locals.episode_indices = Range(2)
    /\ Locals.episode_indices[0] = her.pos + 1 /\ Locals.episode_indices[1] = her.pos - 1

\* C7: every (slot, step) pair the sampler reads, online or offline, as the
\* sampled transition or as the source of a substitute goal, has
\* 0 <= step < episode_lengths[slot].
C7_ReadsWithinEpisode ==
    /\ \A i \in DOMAIN Locals.transitions_indices :
         /\ 0 <= StepOf(i) /\ StepOf(i) < LengthOf(i)
         /\ SlotOf(i) \in Range(Stored)
    /\ \A i \in DOMAIN Locals.goal_indices :
         0 <= Locals.goal_indices[i] /\ Locals.goal_indices[i] < LengthOf(i)

\* C7 witness: an online batch read from a slot whose episode is shorter than
\* the slot, the steps past its end still holding an older episode.
C7_Witness ==
    /\ result.op = "sample"
    /\ \E i \in DOMAIN Locals.goal_indices :
         /\ LengthOf(i) < her.max_episode_length
         /\ her.buffer[SlotOf(i)][LengthOf(i)].achieved_goal # 0

\* C8: on an online buffer sample(batch_size) returns a batch in which
\* exactly floor(batch_size * n_sampled_goal / (n_sampled_goal + 1)) entries,
\* the first ones, carry a substitute goal and a reward recomputed for it,
\* and every other entry carries its stored goal and stored reward.
C8_RelabelledShare ==
    (result.op = "sample" /\ her.online_sampling /\ size(her) > 0)
        => /\ result.status = "ok"
           /\ Entries = Range(result.batch_size)
           /\ Locals.her_indices = {i \in Entries : i < (result.batch_size * her.n_sampled_goal) \div (her.n_sampled_goal + 1)}
           /\ \A i \in Entries :
                LET t == Locals.transitions[i]
                IN  IF i \in Locals.her_indices
                    THEN t.reward = compute_reward(t.next_achieved_goal, t.desired_goal, t.info)
                    ELSE t.desired_goal = CellOf(i).desired_goal /\ t.reward = CellOf(i).reward

\* C9: under FUTURE an entry relabelled at step t of an episode of length L
\* gets the achieved goal of a step t' of the same episode with
\* t < t' <= L - 1; an entry whose episode has length 1 is not relabelled and
\* keeps its stored reward, and an offline episode of length 1 yields no
\* relabelled transition at all.
C9_FutureGoalIsLater ==
    her.goal_selection_strategy = "FUTURE"
        => /\ \A i \in Entries :
                /\ i \in Locals.her_indices
                     => /\ StepOf(i) < Locals.goal_indices[i]
                        /\ Locals.goal_indices[i] <= LengthOf(i) - 1
                        /\ Locals.transitions[i].desired_goal = her.buffer[SlotOf(i)][Locals.goal_indices[i]].achieved_goal
                /\ LengthOf(i) = 1
                     => /\ i \notin Locals.her_indices
                        /\ Locals.transitions[i].desired_goal = CellOf(i).desired_goal
                        /\ Locals.transitions[i].reward = CellOf(i).reward
           /\ (~Locals.online_sampling /\ Locals.episode_length = 1)
                => (Entries = {} /\ Len(result.calls) = 1)

\* C9 witness: a FUTURE batch whose first entry was relabelled with the goal
\* achieved one step later, which is not the goal it was stored with.
C9_Witness ==
    /\ her.goal_selection_strategy = "FUTURE" /\ result.op = "sample"
    /\ 0 \in Locals.her_indices /\ StepOf(0) = 0 /\ Locals.goal_indices[0] = 1
    /\ Locals.transitions[0].desired_goal # CellOf(0).desired_goal

\* C10: under FINAL every relabelled entry gets the achieved goal stored at
\* step episode_lengths[slot] - 1 of its own episode, whichever step was
\* sampled.
C10_FinalGoalIsLastStep ==
    her.goal_selection_strategy = "FINAL"
        => \A i \in Entries :
             i \in Locals.her_indices
                => /\ Locals.goal_indices[i] = LengthOf(i) - 1
                   /\ Locals.transitions[i].desired_goal = her.buffer[SlotOf(i)][LengthOf(i) - 1].achieved_goal

\* C10 witness: a FINAL entry sampled at a step that is not the last of its
\* episode, relabelled with a goal other than the one achieved at that step.
C10_Witness ==
    /\ her.goal_selection_strategy = "FINAL" /\ result.op = "sample"
    /\ \E i \in Locals.her_indices :
         /\ StepOf(i) < LengthOf(i) - 1
         /\ Locals.transitions[i].desired_goal # CellOf(i).achieved_goal

-----------------------------------------------------------------------------
(* Properties of the offline relabelling, checked under SpecSample *)

\* C11: in offline mode, when an episode of length L closes, the real
\* transition is followed by exactly L * n_sampled_goal calls of
\* replay_buffer.add ((L - 1) * n_sampled_goal under FUTURE), each with
\* done = false and an empty info, no exception is raised, and the staging
\* store is reset: pos = 0, current_idx = 0, full = false, all lengths 0.
C11_OfflineCloseAppendsVirtual ==
    [][(result'.op = "add" /\ ~her.online_sampling /\ result'.stored)
           => LET L == hist.ep_added + 1
                  n == her.n_sampled_goal
                  count == IF her.goal_selection_strategy = "FUTURE" THEN (L - 1) * n ELSE L * n
                  calls == result'.calls
              IN  /\ result'.status = "ok"
                  /\ Len(calls) = 1 + count
                  /\ \A k \in 2..Len(calls) : calls[k].done = FALSE /\ calls[k].infos = NoInfo
                  /\ her'.pos = 0 /\ her'.current_idx = 0 /\ ~her'.full
                  /\ \A e \in Range(her'.max_episode_stored) : her'.episode_lengths[e] = 0]_vars

\* C11 witness: an offline FUTURE buffer has just closed an episode of two
\* steps and appended the one virtual transition of its first step.
C11_Witness ==
    /\ IsAdd /\ ~her.online_sampling /\ result.stored /\ result.status = "ok"
    /\ her.goal_selection_strategy = "FUTURE"
    /\ result.locals.episode_length = 2 /\ Len(result.calls) = 2
    /\ result.calls[2].obs.desired_goal # result.calls[1].obs.desired_goal

-----------------------------------------------------------------------------
(* Properties of the strategies that draw from the history of desired      *)
(* goals, and of the configuration errors, checked under SpecPast          *)

\* the preselection count the buffer was configured with (0: none)
Preselection ==
    IF her.n_sampled_goal_preselection = {} THEN 0 ELSE CHOOSE p \in her.n_sampled_goal_preselection : TRUE

\* an offline add has just closed an episode
OfflineClose == IsAdd /\ ~her.online_sampling /\ result.stored

\* the goal candidate i of the last relabelling drew from the history
DrawnGoal(i) == her.desired_goal_storage.observations[Locals.goal_indices[i]]

\* the reward of step t of the closed episode under goal g
RewardUnder(t, g) == compute_reward(her.buffer[0][t].next_achieved_goal, g, NoInfo)

\* the summed reward of replicate r of the last relabelling
ReplicateReward(r) ==
    LET L == Locals.episode_length
    IN  SumTo([t \in Range(L) |-> RewardUnder(t, DrawnGoal(r * L + t))], L)

\* C12: offline PAST_DESIRED_SUCCESS with preselection P > n = n_sampled_goal
\* relabels without error and keeps exactly n of the P replicates, each with
\* all the steps of the episode; with at least n distinct summed rewards the
\* kept replicates carry the n largest distinct sums, one replicate each, and
\* otherwise no replicate left out has a larger sum than a kept one.
C12_SuccessKeepsBestReplicates ==
    (OfflineClose /\ her.goal_selection_strategy = "PAST_DESIRED_SUCCESS" /\ Preselection > her.n_sampled_goal)
        => LET L == Locals.episode_length
               n == her.n_sampled_goal
               W == Locals.winner_episodes
               sums == {ReplicateReward(r) : r \in Range(Preselection)}
               nth(k) == CHOOSE w \in W : Cardinality({v \in W : v < w}) = k
           IN  /\ result.status = "ok"
               /\ W \subseteq Range(Preselection) /\ Cardinality(W) = n
               /\ DOMAIN Locals.transitions = Range(n * L)
               /\ Len(result.calls) = 1 + n * L
               /\ \A k \in Range(n) : \A t \in Range(L) :
                    LET kept == Locals.transitions[k * L + t]
                        g == DrawnGoal(nth(k) * L + t)
                    IN  /\ kept.achieved_goal = her.buffer[0][t].achieved_goal
                        /\ kept.next_achieved_goal = her.buffer[0][t].next_achieved_goal
                        /\ kept.desired_goal = g
                        /\ kept.reward = RewardUnder(t, g)
                        /\ result.calls[1 + k * L + t + 1].obs.desired_goal = g
               /\ IF Cardinality(sums) >= n
                  THEN /\ \A v, w \in W : v # w => ReplicateReward(v) # ReplicateReward(w)
                       /\ \A w \in W : \A x \in sums \ {ReplicateReward(v) : v \in W} : x < ReplicateReward(w)
                  ELSE \A w \in W : \A r \in Range(Preselection) \ W : ReplicateReward(r) <= ReplicateReward(w)

\* C12 witness: a relabelling with three replicates of two different sums,
\* of which it kept one of each sum and left a duplicate out.
C12_Witness ==
    /\ OfflineClose /\ her.goal_selection_strategy = "PAST_DESIRED_SUCCESS" /\ result.status = "ok"
    /\ Preselection = 3 /\ her.n_sampled_goal = 2
    /\ Cardinality({ReplicateReward(r) : r \in Range(3)}) = 2
    /\ Cardinality({ReplicateReward(w) : w \in Locals.winner_episodes}) = 2

\* C13: under offline PAST_DESIRED_SUCCESS every replicate uses one goal,
\* drawn once from the history, for all the steps of the episode: two
\* candidates of one replicate drew the same goal, and two virtual
\* transitions of one kept replicate carry the same desired goal.
C13_OneGoalPerReplicate ==
    (OfflineClose /\ her.goal_selection_strategy = "PAST_DESIRED_SUCCESS" /\ result.status = "ok")
        => LET L == Locals.episode_length
           IN  /\ \A r \in Range(Preselection) : \A t, u \in Range(L) :
                    DrawnGoal(r * L + t) = DrawnGoal(r * L + u)
               /\ \A k \in Range(her.n_sampled_goal) : \A t, u \in Range(L) :
                    Locals.transitions[k * L + t].desired_goal = Locals.transitions[k * L + u].desired_goal

\* the virtual transitions an offline close of an episode of length L appends
VirtualCount(L) ==
    IF her.goal_selection_strategy = "FUTURE" THEN (L - 1) * her.n_sampled_goal ELSE L * her.n_sampled_goal

\* C14 as stated: in offline mode with a strategy other than
\* PAST_DESIRED_SUCCESS and a preselection count configured, the relabelling
\* at episode close succeeds exactly when that count equals n_sampled_goal.
C14_EqualPreselectionSucceeds ==
    (OfflineClose /\ her.goal_selection_strategy # "PAST_DESIRED_SUCCESS" /\ her.n_sampled_goal_preselection # {})
        => (result.status = "ok" <=> Preselection = her.n_sampled_goal)

\* C14 amended: in offline mode with a strategy other than
\* PAST_DESIRED_SUCCESS the relabelling at episode close succeeds exactly when
\* no preselection count is configured; with any count configured, equal to
\* n_sampled_goal or not, it fails with an AssertionError before a virtual
\* transition is appended.  When it succeeds every replicate is kept: no
\* ranking or filtering takes place.
C14_PreselectionMustBeAbsent ==
    (OfflineClose /\ her.goal_selection_strategy # "PAST_DESIRED_SUCCESS")
        => /\ result.status = "ok" <=> her.n_sampled_goal_preselection = {}
           /\ her.n_sampled_goal_preselection # {}
                => (result.status = "AssertionError" /\ Len(result.calls) = 1 /\ Locals.transitions = <<>>)
           /\ result.status = "ok"
                => /\ Locals.winner_episodes = {}
                   /\ Cardinality(DOMAIN Locals.transitions) = VirtualCount(Locals.episode_length)
                   /\ Len(result.calls) = 1 + VirtualCount(Locals.episode_length)

\* C14 witness: an offline PAST_DESIRED buffer configured with a preselection
\* count equal to n_sampled_goal has failed at its first episode close.
C14_Witness ==
    /\ OfflineClose /\ her.goal_selection_strategy = "PAST_DESIRED"
    /\ Preselection = her.n_sampled_goal
    /\ result.status = "AssertionError"

\* an offline buffer with a preselection count its strategy does not take,
\* or without the count its strategy needs
Misconfigured ==
    /\ ~her.online_sampling
    /\ (her.goal_selection_strategy = "PAST_DESIRED_SUCCESS") <=> (her.n_sampled_goal_preselection = {})

\* C15: an offline buffer that is misconfigured in its preselection count
\* never closes an episode without an error: the add that closes its first
\* episode raises an AssertionError before the relabelling starts, and no
\* add appends more than the real transition to the downstream buffer.
C15_MisconfiguredFailsAtFirstClose ==
    Misconfigured
        => /\ Len(result.calls) = IF IsAdd THEN 1 ELSE 0
           /\ result.stored => (result.status = "AssertionError" /\ Locals.transitions = <<>> /\ hist.closed = 1)
           /\ ~result.stored => (result.status = "ok" /\ hist.closed = 0)

\* C15 witness: an offline PAST_DESIRED_SUCCESS buffer without a preselection
\* count has failed at the close of its first episode, of two steps.
C15_Witness ==
    /\ Misconfigured /\ her.goal_selection_strategy = "PAST_DESIRED_SUCCESS"
    /\ OfflineClose /\ result.status = "AssertionError"
    /\ her.episode_lengths[0] = 2 /\ Len(result.calls) = 1

\* C16: constructing a buffer with PAST_DESIRED or PAST_DESIRED_SUCCESS and
\* online sampling raises an AssertionError, and that buffer never takes an
\* add or a sample; every other construction succeeds, those two strategies
\* with offline sampling included.
C16_PastStrategiesAreOfflineOnly ==
    LET past == her.goal_selection_strategy \in {"PAST_DESIRED", "PAST_DESIRED_SUCCESS"}
    IN  /\ her.init_error = (IF past /\ her.online_sampling THEN "AssertionError" ELSE "None")
        /\ her.init_error # "None"
             => /\ result = NoResult /\ hist = NoHist(her)
                /\ her.current_idx = 0 /\ her.pos = 0 /\ ~her.full
                /\ her.desired_goal_storage.pos = 0

\* C16 witness: the failed construction of an online PAST_DESIRED_SUCCESS
\* buffer.
C16_Witness ==
    /\ her.goal_selection_strategy = "PAST_DESIRED_SUCCESS" /\ her.online_sampling
    /\ her.init_error = "AssertionError"

-----------------------------------------------------------------------------
(* Properties of the environment handle and of pickling, checked under     *)
(* SpecPersist                                                              *)

\* C17: set_env succeeds only when the handle is unset.  A constructed buffer
\* has its handle set, and unpickling leaves it unset; set_env on a set
\* handle raises ValueError and changes nothing, set_env on an unset handle
\* sets it and changes nothing else.
C17_SetEnvOnlyWhenUnset ==
    /\ [](result.op = "init" => her.env = "env")
    /\ [][/\ result'.op = "restore" => her'.env = "None"
          /\ result'.op = "set_env"
               => IF her.env = "None"
                  THEN result'.status = "ok" /\ her' = [her EXCEPT !.env = "env"]
                  ELSE result'.status = "ValueError" /\ her' = her]_vars

\* C17 witness: set_env has succeeded on an unpickled buffer that holds a
\* closed episode.
C17_Witness ==
    /\ result.op = "set_env" /\ result.status = "ok" /\ her.env = "env"
    /\ size(her) > 0

-----------------------------------------------------------------------------
(* Properties of add and truncate_last_trajectory, checked under Spec *)

\* C19: the done flag add stores for the step it writes is, with timeout
\* handling, 1 exactly when done is true and the info does not mark a
\* time-limit truncation, and without timeout handling the done it was
\* given; an add with done = true closes the episode in either case.
C19_TimeoutStoredAsNonTerminal ==
    [][(result'.op = "add" /\ result'.status = "ok")
           => LET cell == her'.buffer[her.pos][her.current_idx]
                  infos == her'.info_buffer[her.pos][Len(her'.info_buffer[her.pos])]
                  given == IF result'.done THEN 1 ELSE 0
              IN  /\ her.handle_timeout_termination
                       => cell.done = IF result'.done /\ ~infos.TimeLimit_truncated THEN 1 ELSE 0
                  /\ ~her.handle_timeout_termination => cell.done = given
                  /\ result'.done => result'.stored]_vars

\* C19 witness: with timeout handling, an add with done = true and a
\* time-limit truncation has closed an episode of two steps whose last step
\* is stored with done = 0.
C19_Witness ==
    /\ IsAdd /\ result.done /\ result.stored /\ her.online_sampling /\ her.handle_timeout_termination
    /\ LET slot == (her.pos + Stored - 1) % Stored
       IN  /\ her.episode_lengths[slot] = 2
           /\ her.info_buffer[slot][2].TimeLimit_truncated
           /\ her.buffer[slot][1].done = 0

\* C20: truncate_last_trajectory with current_idx = k > 0 records k as the
\* length of slot pos, stores done = 1 for step k - 1 of that slot and leaves
\* every other stored value as it was, advances pos by one modulo
\* max_episode_stored, raises full when pos wraps to 0 and sets current_idx
\* to 0; with current_idx = 0 it changes nothing.  A second call right after
\* the first changes nothing.
C20_TruncateClosesPartialEpisode ==
    [][result'.op = "truncate_last_trajectory"
           => LET k == her.current_idx
                  p == her.pos
              IN  /\ k > 0
                       => /\ her'.episode_lengths = [her.episode_lengths EXCEPT ![p] = k]
                          /\ her'.buffer[p][k - 1] = [her.buffer[p][k - 1] EXCEPT !.done = 1]
                          /\ \A e \in Range(Stored) : \A t \in Range(her.max_episode_length) :
                               <<e, t>> # <<p, k - 1>> => her'.buffer[e][t] = her.buffer[e][t]
                          /\ her'.pos = (p + 1) % Stored
                          /\ her'.full = (her.full \/ her'.pos = 0)
                          /\ her'.current_idx = 0
                          /\ her'.info_buffer = her.info_buffer
                  /\ k = 0 => her' = her
                  /\ truncate_last_trajectory(her') = her']_vars

\* C20 witness: truncate_last_trajectory has closed an episode of one step,
\* shorter than max_episode_length, into the last slot of a ring of several
\* slots, which is now full.
C20_Witness ==
    /\ result.op = "truncate_last_trajectory" /\ her.online_sampling
    /\ Stored > 1 /\ her.pos = 0 /\ her.full /\ her.current_idx = 0
    /\ her.max_episode_length = 2 /\ her.episode_steps = 1
    /\ her.episode_lengths[Stored - 1] = 1 /\ her.buffer[Stored - 1][0].done = 1

-----------------------------------------------------------------------------
(* Properties of the router, checked under SpecVec *)

\* the program has called the router's constructor
RouterCalled == result.op = "VecHerReplayBuffer"

\* the number of entries of one sample of an instance: the downstream
\* buffer, when the instance delegates to it, returns what it was asked for
EntriesOf(sm) ==
    IF sm.locals.status = "delegated" THEN sm.batch_size ELSE Cardinality(DOMAIN sm.locals.transitions)

\* the number of entries of the concatenation of samples
MergedEntries(samples) == SumTo([k \in Range(Len(samples)) |-> EntriesOf(samples[k + 1])], Len(samples))

\* C21: the router's sample(batch_size) gives instance i the share
\* (batch_size + i) // n_envs; for every batch_size >= 1 the shares sum to
\* batch_size, any two differ by at most 1, at least one is positive, the
\* instances with a zero share are skipped, and the call returns a merged
\* batch of exactly batch_size entries.
C21_RouterSampleReturnsBatch ==
    RouterCalled =>
      /\ her.init_error = "None"
      /\ \A batch_size \in 1..(MaxBatchSize + 1) :
           LET shares == batch_sizes(batch_size, her.n_envs)
               asked == {i \in Range(her.n_envs) : shares[i] > 0}
           IN  /\ SumTo(shares, her.n_envs) = batch_size
               /\ \A i, j \in Range(her.n_envs) : shares[i] - shares[j] <= 1
               /\ asked # {}
               /\ \A o \in VecHerReplayBuffer_sample(her, batch_size) :
                    /\ o.status = "ok"
                    /\ Len(o.samples) = Cardinality(asked)
                    /\ \A k \in 1..Len(o.samples) : o.samples[k].batch_size > 0
                    /\ MergedEntries(o.samples) = batch_size

\* the batched transitions the instances' environments may hand to one add
BatchedSteps(n) ==
    {[obs |-> [i \in Range(n) |-> EnvStep(env, FALSE).obs],
      next_obs |-> [i \in Range(n) |-> EnvStep(env, FALSE).next_obs],
      reward |-> [i \in Range(n) |-> EnvStep(env, FALSE).reward],
      done |-> done,
      infos |-> [i \in Range(n) |-> EnvStep(env, FALSE).infos]] : done \in [Range(n) -> BOOLEAN]}

\* C22: the router's add forwards the i-th component of a batched transition
\* to instance i only: after the call every instance has received exactly
\* one add, and instance i is left as its own add of the i-th component
\* leaves it, whatever the other components were.
C22_RouterAddDemultiplexes ==
    RouterCalled =>
      /\ her.init_error = "None"
      /\ \A step \in BatchedSteps(her.n_envs) :
           \A o \in VecHerReplayBuffer_add(her, step.obs, step.next_obs, step.reward, step.done, step.infos) :
             /\ o.status = "ok"
             /\ \A i \in Range(her.n_envs) :
                  /\ o.received[i] = 1
                  /\ o.self.buffers[i] \in
                       {a.self : a \in add(her.buffers[i], step.obs[i], step.next_obs[i], step.reward[i],
                                           step.done[i], step.infos[i])}

\* C27: constructing the router creates one buffer per environment instance,
\* each configured with the router's goal selection strategy, n_sampled_goal,
\* online-sampling flag and timeout-handling flag, with the capacity
\* (buffer_size + i) // n_envs for instance i.
C27_RouterConfiguresEachBuffer ==
    RouterCalled =>
      /\ her.init_error = "None"
      /\ DOMAIN her.buffers = Range(hist.num_envs)
      /\ \A i \in Range(hist.num_envs) :
           LET capacity == (hist.buffer_size + i) \div hist.num_envs
           IN  /\ her.buffers[i].goal_selection_strategy = hist.goal_selection_strategy
               /\ her.buffers[i].n_sampled_goal = hist.n_sampled_goal
               /\ her.buffers[i].online_sampling = hist.online_sampling
               /\ her.buffers[i].handle_timeout_termination = hist.handle_timeout_termination
               /\ her.buffers[i].max_episode_stored =
                    Max((IF hist.online_sampling THEN capacity ELSE hist.max_episode_length) \div hist.max_episode_length, 1)

-----------------------------------------------------------------------------
(* Frame and bookkeeping properties of one buffer *)

\* C23: on an online buffer sample leaves pos, full, current_idx, the episode
\* lengths and every stored transition as they were (the relabelled entries
\* are copies), and neither add nor sample makes a call of replay_buffer.add,
\* although a downstream buffer was supplied at construction.
C23_OnlineSampleWritesNothing ==
    [][her.online_sampling
          => /\ result'.calls = <<>>
             /\ her'.replay_buffer = "None"
             /\ result'.op = "sample"
                  => /\ result'.status # "delegated"
                     /\ her'.pos = her.pos /\ her'.full = her.full /\ her'.current_idx = her.current_idx
                     /\ her'.episode_lengths = her.episode_lengths
                     /\ her'.buffer = her.buffer]_vars

\* C23 witness: an online sample has relabelled its first entry, and the
\* stored transition it was copied from still has the goal of the episode.
C23_Witness ==
    /\ her.online_sampling /\ result.op = "sample"
    /\ 0 \in Locals.her_indices
    /\ Locals.transitions[0].desired_goal # CellOf(0).desired_goal
    /\ CellOf(0).desired_goal = env.desired_goal

\* C24: whenever a reward is recomputed for the transition stored at
\* (slot, step), the info handed to the reward function is the info of the
\* add that wrote (slot, step): its payload names the goal achieved before
\* that step and the desired goal of that episode, which are the ones the
\* add stored in the cell.
C24_InfoIsOfTheStoredStep ==
    \A i \in Entries \cap Locals.her_indices :
      Locals.status \in {"ok", "UnboundLocalError"}
        => /\ Locals.transitions[i].info.achieved_goal = CellOf(i).achieved_goal
           /\ Locals.transitions[i].info.desired_goal = CellOf(i).desired_goal

\* C25: in every state reached by add, reset and truncate_last_trajectory,
\* 0 <= pos < max_episode_stored, 0 <= current_idx < max_episode_length,
\* 0 <= episode_lengths[slot] <= max_episode_length for every slot, and no
\* add has written at a step index outside its slot (which numpy answers
\* with IndexError).
C25_CursorsStayInRange ==
    /\ 0 <= her.pos /\ her.pos < her.max_episode_stored
    /\ 0 <= her.current_idx /\ her.current_idx < her.max_episode_length
    /\ \A slot \in Range(her.max_episode_stored) :
         0 <= her.episode_lengths[slot] /\ her.episode_lengths[slot] <= her.max_episode_length
    /\ result.status # "IndexError"

\* C25 witness: an add has written the last step of the last slot of a store
\* of several slots; the episode was closed at full length and pos wrapped.
C25_Witness ==
    /\ result.op = "add" /\ result.stored
    /\ her.max_episode_stored > 1 /\ her.max_episode_length > 1
    /\ her.full /\ her.pos = 0 /\ her.current_idx = 0
    /\ her.episode_lengths[her.max_episode_stored - 1] = her.max_episode_length

\* the slots the online episode selection of _sample_transitions can return:
\* the values of (randint(1, n) + pos) % n on a full store, of randint(0, n)
\* otherwise, with n = n_episodes_stored
EligibleSlots(self) ==
    LET n == n_episodes_stored(self)
    IN  IF self.full THEN {(d + self.pos) % n : d \in 1..(n - 1)} ELSE Range(n)

\* C26: whenever an online buffer holds a closed episode (size() > 0) the set
\* of slots eligible for the online episode selection is not empty, for
\* every max_episode_stored >= 1, and so the selection of a sample draws its
\* slots without a ValueError.
C26_EligibleSlotsNotEmpty ==
    (her.online_sampling /\ size(her) > 0)
        => /\ EligibleSlots(her) # {}
           /\ result.op = "sample" => result.status # "ValueError"

-----------------------------------------------------------------------------
(* Properties of the offline close, checked under SpecPast and SpecSample *)

\* the number of goals appended to a history that has not wrapped yet
Appended(rb) == IF rb.full THEN rb.buffer_size ELSE rb.pos

\* C28: in offline mode with PAST_DESIRED or PAST_DESIRED_SUCCESS an add that
\* closes an episode appends exactly one goal, the desired goal of the
\* closing transition, to the history before the relabelling draws from it,
\* so the relabelling finds the history non-empty (no ValueError of an empty
\* draw) and draws among all goals appended so far, this one included (under
\* PAST_DESIRED, which keeps every candidate, entry i carries the goal it
\* drew); an add that closes no episode leaves the history as it was.  The history
\* starts empty, so the number of its goals is the number of episodes closed.
C28_CloseAppendsOneGoal ==
    [][(result'.op = "add" /\ ~her.online_sampling
            /\ her.goal_selection_strategy \in {"PAST_DESIRED", "PAST_DESIRED_SUCCESS"})
          => IF result'.stored
             THEN /\ her'.desired_goal_storage = ReplayBuffer_add(her.desired_goal_storage, env.desired_goal)
                  /\ Appended(her'.desired_goal_storage) = Appended(her.desired_goal_storage) + 1
                  /\ result'.status # "ValueError"
                  /\ \A i \in DOMAIN result'.locals.goal_indices :
                       /\ result'.locals.goal_indices[i] \in Range(Appended(her'.desired_goal_storage))
                       /\ (her.goal_selection_strategy = "PAST_DESIRED" /\ i \in DOMAIN result'.locals.transitions)
                            => result'.locals.transitions[i].desired_goal
                                 = her'.desired_goal_storage.observations[result'.locals.goal_indices[i]]
             ELSE her'.desired_goal_storage = her.desired_goal_storage]_vars

\* C28 witness: the second close of a PAST_DESIRED buffer, of an episode with
\* another desired goal than the first, has relabelled its first entry with
\* the goal this close appended.
C28_Witness ==
    /\ result.op = "add" /\ result.stored /\ result.status = "ok"
    /\ her.goal_selection_strategy = "PAST_DESIRED" /\ ~her.online_sampling
    /\ Appended(her.desired_goal_storage) = 2
    /\ her.desired_goal_storage.observations[0] # her.desired_goal_storage.observations[1]
    /\ 0 \in DOMAIN Locals.goal_indices /\ Locals.goal_indices[0] = 1
    /\ Locals.transitions[0].desired_goal = her.desired_goal_storage.observations[1]

\* C29: in offline mode every add forwards its real transition to the
\* downstream buffer exactly once, as its first call of replay_buffer.add;
\* an add that closes no episode makes no other call, and the calls that
\* follow the real one in a closing add are the virtual transitions of the
\* episode it closes (non-terminal, empty info, copied from a step of that
\* episode).  So the real transitions of an episode all precede its virtual
\* ones, which all precede the first real transition of the next episode.
C29_RealBeforeVirtual ==
    [][(result'.op = "add" /\ ~her.online_sampling)
          => LET step == EnvStep(env, FALSE)
                 calls == result'.calls
                 L == hist.ep_added + 1
             IN  /\ Len(calls) >= 1
                 /\ calls[1] = [obs |-> step.obs, next_obs |-> step.next_obs, reward |-> step.reward,
                                done |-> result'.done, infos |-> step.infos]
                 /\ ~result'.stored => Len(calls) = 1
                 /\ \A k \in 2..Len(calls) :
                      /\ calls[k].done = FALSE /\ calls[k].infos = NoInfo
                      /\ calls[k].infos # calls[1].infos
                      /\ \E t \in Range(L) :
                           /\ calls[k].obs.achieved_goal = her'.buffer[0][t].achieved_goal
                           /\ calls[k].next_obs.achieved_goal = her'.buffer[0][t].next_achieved_goal]_vars

\* C29 witness: an offline FINAL buffer has closed an episode of two steps:
\* the closing add forwarded its real transition and then the two virtual
\* transitions of the episode.
C29_Witness ==
    /\ result.op = "add" /\ ~her.online_sampling /\ result.stored
    /\ her.goal_selection_strategy = "FINAL"
    /\ Len(result.calls) = 3
    /\ result.calls[1].infos # NoInfo /\ result.calls[1].obs.desired_goal = 1
    /\ result.calls[2].infos = NoInfo /\ result.calls[2].obs.desired_goal = 2
    /\ result.calls[3].infos = NoInfo

====
